---- MODULE Spec2Model ----
(***************************************************************************)
(* TypeCord: the Group container (src/src/utils/Group.ts), the             *)
(* RoleManager built on it (src/unnamed/part_001) and BasicInteraction     *)
(* (src/unnamed/part_000).                                                 *)
(*                                                                         *)
(* A Group is a JavaScript Map: its entries are modelled as the sequence   *)
(* of [key, value] pairs in insertion order.  Keys stand for Snowflakes    *)
(* (numeric strings far beyond the array-index range, so a plain object    *)
(* built from them keeps the order in which its properties were defined).  *)
(*                                                                         *)
(* The specifications share the variables; each leaves alone the ones of   *)
(* the others:                                                             *)
(*   SpecGroup        one Group and the methods called on it               *)
(*   SpecClone        a Group and its clone, both written to               *)
(*   Spec             one RoleManager and its asynchronous calls           *)
(*   SpecSync         the same, with the history of successful responses   *)
(*   SpecCompare      RoleManager.comparePosition on pairs of roles        *)
(*   SpecInteraction  a payload and the BasicInteraction built from it     *)
(***************************************************************************)
EXTENDS Integers, Sequences, FiniteSets, TLC

VARIABLES
    group,      \* SpecGroup, SpecClone: the entries of the Group under test
    gop,        \* SpecGroup: the last operation applied to it, with its inputs and result
    cache,      \* Spec: RoleManager.cache, a Group<Snowflake, Role>
    highest,    \* Spec: RoleManager.highest (readonly field)
    everyone,   \* Spec: RoleManager.everyone (readonly field)
    ctor,       \* Spec: where the constructor body ended
    calls,      \* Spec: the asynchronous calls of create / delete / edit
    made,       \* Spec: number of calls made so far
    history,    \* SpecSync: the successful creates and deletes so far, in order
    clone,      \* SpecClone: the entries of the Group returned by group.clone()
    compared,   \* SpecCompare: two roles and what comparePosition returned for them
    interaction \* SpecInteraction: a gateway payload and the BasicInteraction built from it

vars == <<group, gop, cache, highest, everyone, ctor, calls, made, history, clone, compared,
          interaction>>
groupVars == <<group, gop>>
managerVars == <<cache, highest, everyone, ctor, calls, made, history>>
restVars == <<clone, compared, interaction>>

(***************************************************************************)
(* Bounds                                                                  *)
(***************************************************************************)
MaxKey == 3
MaxLenOther == 2
MaxAmount == 4
MaxCalls == 2
MaxCallsMade == 4
MaxId == 2
MaxPosition == 1
MaxCloneKey == 2
RandomSteps == 4
MaxComparePosition == 9

GroupKeys == 1 .. MaxKey
GroupVals == {"a", "b"}
Amounts == 0 .. MaxAmount

\* JavaScript's undefined, as a value no Role and no entry equals
Undefined == [undefined |-> TRUE]
\* the reference a method returns when it returns its receiver
This == "this"

(***************************************************************************)
(* Map (the base class of Group)                                           *)
(***************************************************************************)
Entry(k, v) == <<k, v>>
KeyOf(e) == e[1]
ValueOf(e) == e[2]

GroupKeySeq(g) == [i \in 1 .. Len(g) |-> KeyOf(g[i])]
GroupKeySet(g) == {KeyOf(g[i]) : i \in 1 .. Len(g)}
GroupToArray(g) == [i \in 1 .. Len(g) |-> ValueOf(g[i])]
GroupEntries(g) == [i \in 1 .. Len(g) |-> Entry(KeyOf(g[i]), ValueOf(g[i]))]
GroupSize(g) == Len(g)
GroupHas(g, k) == \E i \in 1 .. Len(g) : KeyOf(g[i]) = k

IndexOfKey(g, k) == CHOOSE i \in 1 .. Len(g) : KeyOf(g[i]) = k

GroupGet(g, k) == IF GroupHas(g, k) THEN ValueOf(g[IndexOfKey(g, k)]) ELSE Undefined

\* Map.prototype.set: an existing key keeps its place and takes the new value,
\* a new key is appended
GroupSetAppends(g, k, v) == Append(g, Entry(k, v))
GroupSetMovesToEnd(g, k, v) == Append(SelectSeq(g, LAMBDA e : KeyOf(e) # k), Entry(k, v))
GroupSet(g, k, v) ==
    IF GroupHas(g, k)
    THEN [g EXCEPT ![IndexOfKey(g, k)] = Entry(k, v)]
    ELSE Append(g, Entry(k, v))

\* Map.prototype.delete: removes the entry of the key, if any
GroupDelete(g, k) == SelectSeq(g, LAMBDA e : KeyOf(e) # k)
GroupDeleteResult(g, k) == GroupHas(g, k)

EMPTY_GROUP_VALUE == 0
GroupEmpty(g) == GroupSize(g) = EMPTY_GROUP_VALUE

(***************************************************************************)
(* Array helpers used by Group                                             *)
(***************************************************************************)
Min(a, b) == IF a < b THEN a ELSE b
Max(a, b) == IF a > b THEN a ELSE b

\* Array.prototype.slice(start) and slice(start, end) on zero-based indices:
\* a negative index counts from the end, every index is clamped to [0, length]
RelativeIndex(len, i) == IF i < 0 THEN Max(len + i, 0) ELSE Min(i, len)
ArraySlice(a, start, end) ==
    LET from == RelativeIndex(Len(a), start)
        to == RelativeIndex(Len(a), end)
    IN  IF from < to THEN SubSeq(a, from + 1, to) ELSE <<>>
ArraySliceFrom(a, start) == ArraySlice(a, start, Len(a))

\* Object.fromEntries: defines one property per entry, in order; a key defined
\* twice keeps its first place and takes the last value
RECURSIVE ObjectFromEntries(_)
ObjectFromEntries(entries) ==
    IF entries = <<>>
    THEN <<>>
    ELSE LET n == Len(entries)
             e == entries[n]
         IN  GroupSet(ObjectFromEntries(SubSeq(entries, 1, n - 1)), KeyOf(e), ValueOf(e))

\* Array.prototype.filter: calls the predicate once per element, in ascending
\* order; .out are the elements kept, .called the elements it was called with
RECURSIVE ArrayFilter(_, _)
ArrayFilter(a, pred) ==
    IF a = <<>>
    THEN [out |-> <<>>, called |-> <<>>]
    ELSE LET n == Len(a)
             rest == ArrayFilter(SubSeq(a, 1, n - 1), pred)
         IN  [out |-> IF a[n] \in pred THEN Append(rest.out, a[n]) ELSE rest.out,
              called |-> Append(rest.called, a[n])]

(***************************************************************************)
(* Group                                                                   *)
(***************************************************************************)
\* first(amount) with an amount
GroupFirst(g, amount) == ObjectFromEntries(ArraySlice(GroupEntries(g), 0, amount))

\* last(amount) with an amount
GroupLast(g, amount) == ObjectFromEntries(ArraySliceFrom(GroupEntries(g), 0 - amount))

\* Array.prototype.at(index): the element at a zero-based index, counted from
\* the end when negative; undefined outside the array
ArrayAt(a, index) ==
    LET k == IF index < 0 THEN Len(a) + index ELSE index
    IN  IF k >= 0 /\ k < Len(a) THEN a[k + 1] ELSE Undefined

\* first() without an amount: entries.at(0)
GroupFirstNoAmount(g) == ArrayAt(GroupEntries(g), 0)

\* last() without an amount: entries.at(0)
GroupLastNoAmount(g) == ArrayAt(GroupEntries(g), 0)

\* callbackfn(previousValue, currentValue) of reduce and reduceRight
CallbackFn(cb, previousValue, currentValue) ==
    CASE cb = "concat" -> previousValue \o currentValue
      [] cb = "previous" -> previousValue
      [] cb = "current" -> currentValue

\* what Array.prototype.reduce / reduceRight throw on an empty array when no
\* initial value is given
EmptyReduce == [thrown |-> "TypeError: Reduce of empty array with no initial value"]

\* Array.prototype.reduce without an initial value: the accumulator starts as
\* the first element and the callback is called for the indices after it,
\* ascending
RECURSIVE ArrayReduceFrom(_, _, _, _)
ArrayReduceFrom(a, cb, accumulator, k) ==
    IF k > Len(a)
    THEN accumulator
    ELSE ArrayReduceFrom(a, cb, CallbackFn(cb, accumulator, a[k]), k + 1)
ArrayReduce(a, cb) ==
    IF a = <<>> THEN EmptyReduce ELSE ArrayReduceFrom(a, cb, a[1], 2)

\* Array.prototype.reduceRight without an initial value: the accumulator
\* starts as the last element and the callback is called for the indices
\* before it, descending
RECURSIVE ArrayReduceRightFrom(_, _, _, _)
ArrayReduceRightFrom(a, cb, accumulator, k) ==
    IF k < 1
    THEN accumulator
    ELSE ArrayReduceRightFrom(a, cb, CallbackFn(cb, accumulator, a[k]), k - 1)
ArrayReduceRight(a, cb) ==
    IF a = <<>> THEN EmptyReduce ELSE ArrayReduceRightFrom(a, cb, a[Len(a)], Len(a) - 1)

\* reduce(callbackfn): this.toArray().reduce(callbackfn)
GroupReduce(g, cb) == ArrayReduce(GroupToArray(g), cb)

\* reduceRight(callbackfn): this.toArray().reduceRight(callbackfn)
GroupReduceRightFoldsLeft(g, cb) == ArrayReduce(GroupToArray(g), cb)
GroupReduceRight(g, cb) == ArrayReduceRight(GroupToArray(g), cb)

\* the values in ascending order of their UTF-16 code units
CodeUnitOrder == <<"a", "b">>
CodeUnitRank(v) == CHOOSE i \in 1 .. Len(CodeUnitOrder) : CodeUnitOrder[i] = v

\* compareFunction(x, y); "default" is the comparison sort makes when it is
\* called without one: by the code units of the values as strings
CompareFunction(cmp, x, y) ==
    CASE cmp = "default" -> CodeUnitRank(x) - CodeUnitRank(y)
      [] cmp = "descending" -> CodeUnitRank(y) - CodeUnitRank(x)
      [] cmp = "equal" -> 0

\* Array.prototype.sort: sorts the array it is called on, stably, and returns it
RECURSIVE ArraySort(_, _)
ArraySort(a, cmp) ==
    IF a = <<>>
    THEN <<>>
    ELSE LET n == Len(a)
             sorted == ArraySort(SubSeq(a, 1, n - 1), cmp)
             notAfter == {i \in 1 .. n - 1 : CompareFunction(cmp, sorted[i], a[n]) <= 0}
             at == IF notAfter = {} THEN 0 ELSE CHOOSE i \in notAfter : \A j \in notAfter : j <= i
         IN  SubSeq(sorted, 1, at) \o <<a[n]>> \o SubSeq(sorted, at + 1, n - 1)

\* Array.prototype.reverse: reverses the array it is called on and returns it
ArrayReverse(a) == [i \in 1 .. Len(a) |-> a[Len(a) + 1 - i]]

\* sort(compareFunction): this.toArray().sort(compareFunction); the array
\* sorted is the one toArray() has just made. .self are the Group's entries
\* after the call
GroupSortInPlace(g, cmp) ==
    LET byValue == ArraySort(GroupToArray(g), cmp)
    IN  [self |-> [i \in 1 .. Len(g) |->
                     LET left == {j \in 1 .. Len(g) : ValueOf(g[j]) = byValue[i]}
                         before == Cardinality({j \in 1 .. i - 1 : byValue[j] = byValue[i]})
                         pick == CHOOSE j \in left : Cardinality({l \in left : l < j}) = before
                     IN  g[pick]],
         ret |-> byValue]
GroupSort(g, cmp) == [self |-> g, ret |-> ArraySort(GroupToArray(g), cmp)]

\* reverse(): this.toArray().reverse()
GroupReverse(g) == [self |-> g, ret |-> ArrayReverse(GroupToArray(g))]

\* Math.random(): a number in [0, 1); the draw n stands for n / RandomSteps
MathRandom == 0 .. RandomSteps - 1

\* a value read out of an array, as opposed to undefined
Defined(v) == [value |-> v]

\* a[num / den]: the element when num / den is an integer inside the array;
\* an array has no property at any other number, and the read gives undefined
ArrayGet(a, num, den) ==
    IF num % den = 0 /\ num \div den < Len(a)
    THEN Defined(a[(num \div den) + 1])
    ELSE Undefined

\* get random: values[Math.random() * values.length]
GroupRandom(g, n) ==
    LET values == GroupToArray(g)
    IN  ArrayGet(values, n * Len(values), RandomSteps)

\* get randomKey: keys[Math.random() * keys.length]
GroupRandomKey(g, n) ==
    LET keys == GroupKeySeq(g)
    IN  ArrayGet(keys, n * Len(keys), RandomSteps)

\* merge(other): other.forEach((value, key) => this.set(key, value)); return this
RECURSIVE MergeEntries(_, _)
MergeEntries(g, entries) ==
    IF entries = <<>>
    THEN g
    ELSE MergeEntries(GroupSet(g, KeyOf(Head(entries)), ValueOf(Head(entries))), Tail(entries))
GroupMergeKeepsOwn(g, other) ==
    [self |-> MergeEntries(other, g), other |-> other, ret |-> This]
GroupMerge(g, other) ==
    [self |-> MergeEntries(g, other), other |-> other, ret |-> This]

\* sweep(predicate): filter a copy of the entries, delete each key kept by the
\* filter, return this
RECURSIVE DeleteEach(_, _)
DeleteEach(g, filtered) ==
    IF filtered = <<>>
    THEN g
    ELSE DeleteEach(GroupDelete(g, KeyOf(Head(filtered))), Tail(filtered))
GroupSweepSkipsAfterDelete(g, pred) ==
    LET f == ArrayFilter(GroupEntries(g), pred)
        odd == SelectSeq([i \in 1 .. Len(f.out) |-> <<i, f.out[i]>>], LAMBDA p : p[1] % 2 = 1)
    IN  [self |-> DeleteEach(g, [i \in 1 .. Len(odd) |-> odd[i][2]]),
         called |-> f.called, ret |-> This]
GroupSweep(g, pred) ==
    LET f == ArrayFilter(GroupEntries(g), pred)
    IN  [self |-> DeleteEach(g, f.out), called |-> f.called, ret |-> This]

\* clone(): a new Group, then newGroup.set(key, value) for each entry of a
\* copy of the entries, in order; the result is the entries of the new Group
GroupCloneEmpty(g) == <<>>
GroupClone(g) == MergeEntries(<<>>, GroupEntries(g))

(***************************************************************************)
(* RoleManager                                                             *)
(*                                                                         *)
(* An asynchronous method runs up to its await in the step that calls it   *)
(* and from the await to its end in the step in which the remote response  *)
(* arrives; several calls may be waiting at once.  calls[c] is one call:   *)
(*   st        "idle", "pending" (at the await), "resolved", "rejected"    *)
(*   op, id    the method, and role.id of delete and edit                  *)
(*   requests  remote requests issued by the call                          *)
(*   data      the response of a successful remote call                    *)
(*   ret, err  what the caller gets                                        *)
(*   target    of an edit: the cached Role whose edit was called           *)
(* A finished call keeps its record until its caller has taken the result. *)
(* The methods read this.cache, this.client and this.guild.id only; they   *)
(* are modelled on a receiver whose guild is GuildId, whatever the end of  *)
(* the constructor body was.                                               *)
(***************************************************************************)
GuildId == 1
Ids == 1 .. MaxId
Positions == 0 .. MaxPosition
Calls == 1 .. MaxCalls

\* RawGuildRole, as far as the manager and the claims read it
RoleData == [id : Ids, position : Positions]

\* new Role(data, client, guildId); inst tells one Role object from another
NewRole(data, guildId, inst) ==
    [id |-> data.id, position |-> data.position, guildId |-> guildId, inst |-> inst]

\* Role.edit(options): a remote patch of the role; on success a new Role built
\* from the response, which keeps the role's id
RoleEditResult(target, position, inst) ==
    NewRole([id |-> target.id, position |-> position], target.guildId, inst)

IdleCall == [st |-> "idle"]
PendingCall(op, id, requests, target) ==
    [st |-> "pending", op |-> op, id |-> id, requests |-> requests, data |-> Undefined,
     ret |-> Undefined, err |-> "none", target |-> target]

\* The Role objects something still refers to: those in the cache, those
\* whose edit is running and the results not yet taken.  A Role constructed
\* now is none of them; FreshInst names it.
InstsOf(g) == {ValueOf(g[i]).inst : i \in 1 .. Len(g)}
Live ==
    InstsOf(cache)
        \cup {calls[c].target.inst : c \in {b \in Calls : calls[b].st = "pending"
                                                          /\ calls[b].op = "edit"}}
        \cup {calls[c].ret.inst : c \in {b \in Calls : calls[b].st = "resolved"
                                                       /\ calls[b].op # "delete"}}
FreshInst == CHOOSE n \in 1 .. Cardinality(Live) + 1 :
                 n \notin Live /\ \A m \in 1 .. n - 1 : m \in Live

\* c is the handle a new call gets: the first one not in use
FreeCall(c) == calls[c].st = "idle" /\ \A b \in Calls : b < c => calls[b].st # "idle"
\* a finished call is handed to its caller (a microtask) before the next call
\* is made and before the next response arrives
NoneFinished == \A c \in Calls : calls[c].st \notin {"resolved", "rejected"}

\* the manager after the field initializers and super(client), line 13 and 20
Init ==
    /\ cache = <<>>
    /\ highest = Undefined
    /\ everyone = Undefined
    /\ ctor = "start"
    /\ calls = [c \in Calls |-> IdleCall]
    /\ made = 0
    /\ history = <<>>
    /\ clone = Undefined
    /\ compared = Undefined
    /\ interaction = Undefined
    /\ group = <<>>
    /\ gop = [op |-> "none"]

\* constructor, lines 22-24, on the cache the field initializer made:
\* line 22 reads .guildId of this.cache.first(), which is entries.at(0);
\* with an entry there, the pair has no guildId, guilds.cache.get(undefined)
\* gives no guild and line 23 reads .id of it
RoleManagerConstructor ==
    /\ ctor = "start"
    /\ ctor' = IF GroupEntries(cache) = <<>> THEN "TypeError at line 22" ELSE "TypeError at line 23"
    /\ UNCHANGED <<cache, highest, everyone, calls, made>>
    /\ UNCHANGED <<groupVars, restVars>>

\* create, line 45 up to the await
CreateCall(c) ==
    /\ ctor # "start"
    /\ NoneFinished
    /\ FreeCall(c)
    /\ made < MaxCallsMade /\ made' = made + 1
    /\ calls' = [calls EXCEPT ![c] = PendingCall("create", 0, 1, Undefined)]
    /\ UNCHANGED <<cache, highest, everyone, ctor>>
    /\ UNCHANGED <<groupVars, restVars>>

\* create, lines 45-49 after the response
CreateResolveReturnsNewRole(c, data) ==
    /\ NoneFinished
    /\ calls[c].st = "pending" /\ calls[c].op = "create"
    /\ cache' = GroupSet(cache, data.id, NewRole(data, GuildId, FreshInst))
    /\ calls' = [calls EXCEPT ![c].st = "resolved", ![c].data = data,
                                    ![c].ret = NewRole(data, GuildId, 0)]
    /\ UNCHANGED <<highest, everyone, ctor, made>>
    /\ UNCHANGED <<groupVars, restVars>>
CreateResolveSkipsCache(c, data) ==
    /\ NoneFinished
    /\ calls[c].st = "pending" /\ calls[c].op = "create"
    /\ calls' = [calls EXCEPT ![c].st = "resolved", ![c].data = data,
                                    ![c].ret = NewRole(data, GuildId, FreshInst)]
    /\ UNCHANGED <<cache, highest, everyone, ctor, made>>
    /\ UNCHANGED <<groupVars, restVars>>
CreateResolve(c, data) ==
    /\ NoneFinished
    /\ calls[c].st = "pending" /\ calls[c].op = "create"
    /\ cache' = GroupSet(cache, data.id, NewRole(data, GuildId, FreshInst))
    /\ calls' = [calls EXCEPT ![c].st = "resolved", ![c].data = data,
                                    ![c].ret = GroupGet(cache', data.id)]
    /\ UNCHANGED <<highest, everyone, ctor, made>>
    /\ UNCHANGED <<groupVars, restVars>>

\* create, the await of line 45 throws
CreateReject(c) ==
    /\ NoneFinished
    /\ calls[c].st = "pending" /\ calls[c].op = "create"
    /\ calls' = [calls EXCEPT ![c].st = "rejected", ![c].err = "RemoteRejected"]
    /\ UNCHANGED <<cache, highest, everyone, ctor, made>>
    /\ UNCHANGED <<groupVars, restVars>>

\* delete, line 60 up to the await
DeleteCallOptimistic(c, id) ==
    /\ ctor # "start"
    /\ NoneFinished
    /\ FreeCall(c)
    /\ made < MaxCallsMade /\ made' = made + 1
    /\ calls' = [calls EXCEPT ![c] = PendingCall("delete", id, 1, Undefined)]
    /\ cache' = GroupDelete(cache, id)
    /\ UNCHANGED <<highest, everyone, ctor>>
    /\ UNCHANGED <<groupVars, restVars>>
DeleteCall(c, id) ==
    /\ ctor # "start"
    /\ NoneFinished
    /\ FreeCall(c)
    /\ made < MaxCallsMade /\ made' = made + 1
    /\ calls' = [calls EXCEPT ![c] = PendingCall("delete", id, 1, Undefined)]
    /\ UNCHANGED <<cache, highest, everyone, ctor>>
    /\ UNCHANGED <<groupVars, restVars>>

\* delete, lines 60-64 after the response
DeleteResolveKeepsEntry(c) ==
    /\ NoneFinished
    /\ calls[c].st = "pending" /\ calls[c].op = "delete"
    /\ calls' = [calls EXCEPT ![c].st = "resolved"]
    /\ UNCHANGED <<cache, highest, everyone, ctor, made>>
    /\ UNCHANGED <<groupVars, restVars>>
DeleteResolve(c) ==
    /\ NoneFinished
    /\ calls[c].st = "pending" /\ calls[c].op = "delete"
    /\ cache' = GroupDelete(cache, calls[c].id)
    /\ calls' = [calls EXCEPT ![c].st = "resolved"]
    /\ UNCHANGED <<highest, everyone, ctor, made>>
    /\ UNCHANGED <<groupVars, restVars>>

\* delete, the await of line 60 throws
DeleteRejectStillDeletes(c) ==
    /\ NoneFinished
    /\ calls[c].st = "pending" /\ calls[c].op = "delete"
    /\ cache' = GroupDelete(cache, calls[c].id)
    /\ calls' = [calls EXCEPT ![c].st = "rejected", ![c].err = "RemoteRejected"]
    /\ UNCHANGED <<highest, everyone, ctor, made>>
    /\ UNCHANGED <<groupVars, restVars>>
DeleteReject(c) ==
    /\ NoneFinished
    /\ calls[c].st = "pending" /\ calls[c].op = "delete"
    /\ calls' = [calls EXCEPT ![c].st = "rejected", ![c].err = "RemoteRejected"]
    /\ UNCHANGED <<cache, highest, everyone, ctor, made>>
    /\ UNCHANGED <<groupVars, restVars>>

\* edit, line 75 up to the await: this.cache.get(role.id)!.edit(options) reads
\* .edit of undefined when the id is not cached, else the role's edit sends
\* the patch
EditCall(c, id) ==
    /\ ctor # "start"
    /\ NoneFinished
    /\ FreeCall(c)
    /\ made < MaxCallsMade /\ made' = made + 1
    /\ calls' = [calls EXCEPT ![c] =
                    IF GroupHas(cache, id)
                    THEN PendingCall("edit", id, 1, GroupGet(cache, id))
                    ELSE [PendingCall("edit", id, 0, Undefined) EXCEPT !.st = "rejected", !.err = "TypeError"]]
    /\ UNCHANGED <<cache, highest, everyone, ctor>>
    /\ UNCHANGED <<groupVars, restVars>>

\* edit, lines 75-77 after the response: the Role that Role.edit built is returned
EditResolveUpserts(c, position) ==
    /\ NoneFinished
    /\ calls[c].st = "pending" /\ calls[c].op = "edit"
    /\ cache' = GroupSet(cache, calls[c].id, RoleEditResult(calls[c].target, position, FreshInst))
    /\ calls' = [calls EXCEPT ![c].st = "resolved",
                              ![c].data = [id |-> calls[c].id, position |-> position],
                              ![c].ret = GroupGet(cache', calls[c].id)]
    /\ UNCHANGED <<highest, everyone, ctor, made>>
    /\ UNCHANGED <<groupVars, restVars>>
EditResolve(c, position) ==
    /\ NoneFinished
    /\ calls[c].st = "pending" /\ calls[c].op = "edit"
    /\ calls' = [calls EXCEPT ![c].st = "resolved",
                              ![c].data = [id |-> calls[c].id, position |-> position],
                              ![c].ret = RoleEditResult(calls[c].target, position, FreshInst)]
    /\ UNCHANGED <<cache, highest, everyone, ctor, made>>
    /\ UNCHANGED <<groupVars, restVars>>

\* edit, the await of line 75 throws
EditReject(c) ==
    /\ NoneFinished
    /\ calls[c].st = "pending" /\ calls[c].op = "edit"
    /\ calls' = [calls EXCEPT ![c].st = "rejected", ![c].err = "RemoteRejected"]
    /\ UNCHANGED <<cache, highest, everyone, ctor, made>>
    /\ UNCHANGED <<groupVars, restVars>>

\* the caller takes the result or the error of a finished call
Settle(c) ==
    /\ calls[c].st \in {"resolved", "rejected"}
    /\ calls' = [calls EXCEPT ![c] = IdleCall]
    /\ UNCHANGED <<cache, highest, everyone, ctor, made>>
    /\ UNCHANGED <<groupVars, restVars>>

Next ==
    \/ RoleManagerConstructor /\ UNCHANGED history
    \/ \E c \in Calls : CreateCall(c) /\ UNCHANGED history
    \/ \E c \in Calls, data \in RoleData : CreateResolve(c, data) /\ UNCHANGED history
    \/ \E c \in Calls : CreateReject(c) /\ UNCHANGED history
    \/ \E c \in Calls, id \in Ids : DeleteCall(c, id) /\ UNCHANGED history
    \/ \E c \in Calls : DeleteResolve(c) /\ UNCHANGED history
    \/ \E c \in Calls : DeleteReject(c) /\ UNCHANGED history
    \/ \E c \in Calls, id \in Ids : EditCall(c, id) /\ UNCHANGED history
    \/ \E c \in Calls, position \in Positions : EditResolve(c, position) /\ UNCHANGED history
    \/ \E c \in Calls : EditReject(c) /\ UNCHANGED history
    \/ \E c \in Calls : Settle(c) /\ UNCHANGED history

\* the same manager, with the successful creates and deletes written down as
\* their responses arrive; positions play no part in which keys are cached
Succeeded(op, id) == Append(history, [op |-> op, id |-> id])
SyncRoleData == {data \in RoleData : data.position = 0}

NextSync ==
    \/ RoleManagerConstructor /\ UNCHANGED history
    \/ \E c \in Calls : CreateCall(c) /\ UNCHANGED history
    \/ \E c \in Calls, data \in SyncRoleData :
           CreateResolve(c, data) /\ history' = Succeeded("create", data.id)
    \/ \E c \in Calls : CreateReject(c) /\ UNCHANGED history
    \/ \E c \in Calls, id \in Ids : DeleteCall(c, id) /\ UNCHANGED history
    \/ \E c \in Calls : DeleteResolve(c) /\ history' = Succeeded("delete", calls[c].id)
    \/ \E c \in Calls : DeleteReject(c) /\ UNCHANGED history
    \/ \E c \in Calls, id \in Ids : EditCall(c, id) /\ UNCHANGED history
    \/ \E c \in Calls : EditResolve(c, 0) /\ UNCHANGED history
    \/ \E c \in Calls : EditReject(c) /\ UNCHANGED history
    \/ \E c \in Calls : Settle(c) /\ UNCHANGED history


(***************************************************************************)
(* SpecGroup: operations applied to one Group                              *)
(***************************************************************************)
\* the Groups of at most n entries over GroupKeys and GroupVals
RECURSIVE GroupsUpTo(_)
GroupsUpTo(n) ==
    IF n = 0
    THEN {<<>>}
    ELSE LET smaller == GroupsUpTo(n - 1)
         IN  smaller \cup
             {Append(g, Entry(k, v)) : g \in {h \in smaller : Len(h) = n - 1},
                                       k \in GroupKeys, v \in GroupVals}
WellFormed(g) == \A i, j \in 1 .. Len(g) : KeyOf(g[i]) = KeyOf(g[j]) => i = j
OtherGroups == {g \in GroupsUpTo(MaxLenOther) : WellFormed(g)}
Predicates == SUBSET (GroupKeys \X GroupVals)
Callbacks == {"concat", "previous", "current"}
CompareFunctions == {"default", "descending", "equal"}

\* gop holds the call whose result the caller is looking at; the caller lets
\* go of it before it makes the next call
NoCall == [op |-> "none"]

\* a new Group, beside a manager nothing is called on
InitGroup ==
    /\ group = <<>>
    /\ gop = NoCall
    /\ cache = <<>>
    /\ highest = Undefined
    /\ everyone = Undefined
    /\ ctor = "start"
    /\ calls = [c \in Calls |-> IdleCall]
    /\ made = 0
    /\ history = <<>>
    /\ clone = Undefined
    /\ compared = Undefined
    /\ interaction = Undefined

CallerContinues ==
    /\ gop # NoCall
    /\ gop' = NoCall
    /\ group' = group
    /\ UNCHANGED <<managerVars, restVars>>

DoSet(k, v) ==
    /\ gop = NoCall
    /\ group' = GroupSet(group, k, v)
    /\ gop' = [op |-> "set", pre |-> group, key |-> k, val |-> v, ret |-> This]
    /\ UNCHANGED <<managerVars, restVars>>

DoDelete(k) ==
    /\ gop = NoCall
    /\ group' = GroupDelete(group, k)
    /\ gop' = [op |-> "delete", pre |-> group, key |-> k, ret |-> GroupDeleteResult(group, k)]
    /\ UNCHANGED <<managerVars, restVars>>

DoMerge(other) ==
    LET r == GroupMerge(group, other)
    IN  /\ gop = NoCall
        /\ group' = r.self
        /\ gop' = [op |-> "merge", pre |-> group, other |-> other,
                   otherAfter |-> r.other, ret |-> r.ret]
        /\ UNCHANGED <<managerVars, restVars>>

DoSweep(pred) ==
    LET r == GroupSweep(group, pred)
    IN  /\ gop = NoCall
        /\ group' = r.self
        /\ gop' = [op |-> "sweep", pre |-> group, pred |-> pred,
                   called |-> r.called, ret |-> r.ret]
        /\ UNCHANGED <<managerVars, restVars>>

DoFirst(amount) ==
    /\ gop = NoCall
    /\ group' = group
    /\ gop' = [op |-> "first", pre |-> group, amount |-> amount, ret |-> GroupFirst(group, amount)]
    /\ UNCHANGED <<managerVars, restVars>>

DoLast(amount) ==
    /\ gop = NoCall
    /\ group' = group
    /\ gop' = [op |-> "last", pre |-> group, amount |-> amount, ret |-> GroupLast(group, amount)]
    /\ UNCHANGED <<managerVars, restVars>>

DoFirstNoAmount ==
    /\ gop = NoCall
    /\ group' = group
    /\ gop' = [op |-> "first()", pre |-> group, ret |-> GroupFirstNoAmount(group)]
    /\ UNCHANGED <<managerVars, restVars>>

DoLastNoAmount ==
    /\ gop = NoCall
    /\ group' = group
    /\ gop' = [op |-> "last()", pre |-> group, ret |-> GroupLastNoAmount(group)]
    /\ UNCHANGED <<managerVars, restVars>>

\* a throw inside reduce / reduceRight ends the call; nothing was written
DoReduce(cb) ==
    /\ gop = NoCall
    /\ group' = group
    /\ gop' = [op |-> "reduce", pre |-> group, cb |-> cb, ret |-> GroupReduce(group, cb)]
    /\ UNCHANGED <<managerVars, restVars>>

DoReduceRight(cb) ==
    /\ gop = NoCall
    /\ group' = group
    /\ gop' = [op |-> "reduceRight", pre |-> group, cb |-> cb,
               ret |-> GroupReduceRight(group, cb)]
    /\ UNCHANGED <<managerVars, restVars>>

DoSort(cmp) ==
    LET r == GroupSort(group, cmp)
    IN  /\ gop = NoCall
        /\ group' = r.self
        /\ gop' = [op |-> "sort", pre |-> group, cmp |-> cmp, ret |-> r.ret]
        /\ UNCHANGED <<managerVars, restVars>>

DoReverse ==
    LET r == GroupReverse(group)
    IN  /\ gop = NoCall
        /\ group' = r.self
        /\ gop' = [op |-> "reverse", pre |-> group, ret |-> r.ret]
        /\ UNCHANGED <<managerVars, restVars>>

DoRandom(n) ==
    /\ gop = NoCall
    /\ group' = group
    /\ gop' = [op |-> "random", pre |-> group, draw |-> n, ret |-> GroupRandom(group, n)]
    /\ UNCHANGED <<managerVars, restVars>>

DoRandomKey(n) ==
    /\ gop = NoCall
    /\ group' = group
    /\ gop' = [op |-> "randomKey", pre |-> group, draw |-> n, ret |-> GroupRandomKey(group, n)]
    /\ UNCHANGED <<managerVars, restVars>>

NextGroup ==
    \/ \E k \in GroupKeys, v \in GroupVals : DoSet(k, v)
    \/ \E k \in GroupKeys : DoDelete(k)
    \/ \E other \in OtherGroups : DoMerge(other)
    \/ \E pred \in Predicates : DoSweep(pred)
    \/ \E amount \in Amounts : DoFirst(amount)
    \/ \E amount \in Amounts : DoLast(amount)
    \/ DoFirstNoAmount
    \/ DoLastNoAmount
    \/ \E cb \in Callbacks : DoReduce(cb)
    \/ \E cb \in Callbacks : DoReduceRight(cb)
    \/ \E cmp \in CompareFunctions : DoSort(cmp)
    \/ DoReverse
    \/ \E n \in MathRandom : DoRandom(n)
    \/ \E n \in MathRandom : DoRandomKey(n)
    \/ CallerContinues

SpecGroup == InitGroup /\ [][NextGroup]_vars

Spec == Init /\ [][Next]_vars

SpecSync == Init /\ [][NextSync]_vars

(***************************************************************************)
(* SpecClone: a Group and the Group its clone() returned, each of them     *)
(* written to after the call.  gop.on tells which of the two objects the   *)
(* last method was called on.                                              *)
(***************************************************************************)
CloneKeys == 1 .. MaxCloneKey
CloneOthers == {g \in GroupsUpTo(1) : \A i \in 1 .. Len(g) : KeyOf(g[i]) \in CloneKeys}
\* predicates of sweep: by key, or by value
ClonePredicates ==
    {ks \X GroupVals : ks \in SUBSET CloneKeys} \cup {CloneKeys \X vs : vs \in SUBSET GroupVals}
CloneTargets == {"this", "newGroup"}

\* the entries of the object a method is called on, and of the other one
Target(on) == IF on = "this" THEN group ELSE clone
Counterpart(on) == IF on = "this" THEN clone ELSE group

\* clone() has been called: there is a clone to call methods on
Cloned == gop # NoCall

\* the object `on` takes new entries, the other object is not written to
WriteTo(on, entries) ==
    IF on = "this"
    THEN group' = entries /\ clone' = clone
    ELSE clone' = entries /\ group' = group

InitClone ==
    /\ group = <<>>
    /\ gop = NoCall
    /\ clone = Undefined
    /\ cache = <<>>
    /\ highest = Undefined
    /\ everyone = Undefined
    /\ ctor = "start"
    /\ calls = [c \in Calls |-> IdleCall]
    /\ made = 0
    /\ history = <<>>
    /\ compared = Undefined
    /\ interaction = Undefined

\* clone = group.clone(); a clone made earlier is let go of
DoClone ==
    /\ clone' = GroupClone(group)
    /\ group' = group
    /\ gop' = [op |-> "clone", on |-> "this"]
    /\ UNCHANGED <<managerVars, compared, interaction>>

CloneSet(on, k, v) ==
    /\ Cloned
    /\ WriteTo(on, GroupSet(Target(on), k, v))
    /\ gop' = [op |-> "set", on |-> on]
    /\ UNCHANGED <<managerVars, compared, interaction>>

CloneDelete(on, k) ==
    /\ Cloned
    /\ WriteTo(on, GroupDelete(Target(on), k))
    /\ gop' = [op |-> "delete", on |-> on]
    /\ UNCHANGED <<managerVars, compared, interaction>>

\* merge with a third Group
CloneMerge(on, other) ==
    /\ Cloned
    /\ WriteTo(on, GroupMerge(Target(on), other).self)
    /\ gop' = [op |-> "merge", on |-> on]
    /\ UNCHANGED <<managerVars, compared, interaction>>

\* merge of one of the two with the other: this.merge(clone), clone.merge(this)
CloneMergeCounterpart(on) ==
    /\ Cloned
    /\ WriteTo(on, GroupMerge(Target(on), Counterpart(on)).self)
    /\ gop' = [op |-> "merge", on |-> on]
    /\ UNCHANGED <<managerVars, compared, interaction>>

CloneSweep(on, pred) ==
    /\ Cloned
    /\ WriteTo(on, GroupSweep(Target(on), pred).self)
    /\ gop' = [op |-> "sweep", on |-> on]
    /\ UNCHANGED <<managerVars, compared, interaction>>

NextClone ==
    \/ DoClone
    \/ \E on \in CloneTargets, k \in CloneKeys, v \in GroupVals : CloneSet(on, k, v)
    \/ \E on \in CloneTargets, k \in CloneKeys : CloneDelete(on, k)
    \/ \E on \in CloneTargets, other \in CloneOthers : CloneMerge(on, other)
    \/ \E on \in CloneTargets : CloneMergeCounterpart(on)
    \/ \E on \in CloneTargets, pred \in ClonePredicates : CloneSweep(on, pred)

SpecClone == InitClone /\ [][NextClone]_vars

(***************************************************************************)
(* SpecCompare: RoleManager.comparePosition, a function of its two         *)
(* arguments only, called on every pair of roles in both orders            *)
(***************************************************************************)
ComparePositions == 0 .. MaxComparePosition

\* comparePosition(role1, role2)
ComparePositionSigned(role1, role2) == role1.position - role2.position
ComparePosition(role1, role2) ==
    IF role1.position > role2.position
    THEN role1.position - role2.position
    ELSE role2.position - role1.position

\* two roles of the guild, nothing compared yet
InitCompare ==
    /\ compared \in {[role1 |-> NewRole([id |-> 1, position |-> p], GuildId, 1),
                      role2 |-> NewRole([id |-> 2, position |-> q], GuildId, 2)] :
                         p \in ComparePositions, q \in ComparePositions}
    /\ group = <<>>
    /\ gop = NoCall
    /\ clone = Undefined
    /\ cache = <<>>
    /\ highest = Undefined
    /\ everyone = Undefined
    /\ ctor = "start"
    /\ calls = [c \in Calls |-> IdleCall]
    /\ made = 0
    /\ history = <<>>
    /\ interaction = Undefined

\* the caller compares the two roles, and compares them again the other way round
ComparePositionCalls ==
    /\ DOMAIN compared = {"role1", "role2"}
    /\ compared' = [role1 |-> compared.role1, role2 |-> compared.role2,
                    ret |-> ComparePosition(compared.role1, compared.role2),
                    swapped |-> ComparePosition(compared.role2, compared.role1)]
    /\ UNCHANGED <<groupVars, managerVars, clone, interaction>>

NextCompare == ComparePositionCalls

SpecCompare == InitCompare /\ [][NextCompare]_vars

(***************************************************************************)
(* SpecInteraction: BasicInteraction (src/unnamed/part_000).  A payload    *)
(* arrives, the constructor builds the interaction object from it, and     *)
(* the predicate methods are functions of that object.  A property that    *)
(* is absent, or holds undefined, is Undefined; one that holds the value v *)
(* is Defined(v).                                                          *)
(***************************************************************************)
InteractionTypes ==
    [Ping |-> 1, ApplicationCommand |-> 2, MessageComponent |-> 3,
     ApplicationCommandAutocomplete |-> 4, ModalSubmit |-> 5]
ComponentTypes ==
    [ActionRow |-> 1, Button |-> 2, StringSelectMenu |-> 3, TextInput |-> 4,
     UserSelectMenu |-> 5, RoleSelectMenu |-> 6, MentionableSelectMenu |-> 7,
     ChannelSelectMenu |-> 8]
ContextMenuTypes == [User |-> 2, Message |-> 3]

\* the values of an enum
EnumValues(enum) == {enum[name] : name \in DOMAIN enum}
Optional(values) == {Undefined} \cup {Defined(v) : v \in values}

\* Snowflakes, by their numeric value
Snowflakes == {4194304 * 25}
\* data.data.type: the kind of command, 1 is a slash command
CommandTypes == {1} \cup EnumValues(ContextMenuTypes)

\* IInteractionData, as far as the constructor and the predicates read it
InteractionData ==
    [target_id : Optional({"99"}), type : Optional(CommandTypes),
     component_type : Optional(EnumValues(ComponentTypes))]

\* RawInteractionData, as far as the constructor and the predicates read it
RawInteractionData ==
    [id : Optional(Snowflakes), type : Optional(EnumValues(InteractionTypes)),
     data : {Undefined} \cup InteractionData,
     guild : Optional({"raw guild"}), member : Optional({"raw member"}),
     user : Optional({"raw user"}), message : Optional({"raw message"})]

\* new Guild(data, client), new GuildMember(data, client, guildId),
\* new User(data, client), new Message(data, client)
NewEntity(class, data) == [class |-> class, data |-> data]

\* x ? ... : ... for the values a payload holds here (none is "", 0 or null)
Truthy(x) == x # Undefined

\* (+this.id / 4194304) + 1420070400000, kept as milliseconds after the epoch
\* added; NaN when the id is undefined
CreationTimestamp(id) ==
    IF id = Undefined THEN [NaN |-> TRUE] ELSE [afterEpoch |-> id.value \div 4194304]

\* Object.assign(target, source): every property source has is written to target
ObjectAssign(target, source) ==
    [f \in DOMAIN target |->
        IF f \in DOMAIN source /\ source[f] # Undefined THEN source[f] ELSE target[f]]

\* the object after the assignments of lines 43 to 60
Assigned(data) ==
    [id |-> data.id,
     type |-> data.type,
     data |-> data.data,
     guild |-> NewEntity("Guild", data.guild),
     member |-> IF Truthy(data.member) THEN NewEntity("GuildMember", data.member) ELSE Undefined,
     user |-> IF Truthy(data.user) THEN NewEntity("User", data.user) ELSE Undefined,
     message |-> IF Truthy(data.message) THEN NewEntity("Message", data.message) ELSE Undefined,
     component_type |-> IF data.data = Undefined THEN Undefined ELSE data.data.component_type,
     creation_timestamp |-> CreationTimestamp(data.id)]

\* new BasicInteraction(data, client)
NewBasicInteraction(data) == ObjectAssign(Assigned(data), data)

\* this.type === InteractionTypes.X
IsApplicationCommandAutocomplete(this) ==
    this.type = Defined(InteractionTypes.ApplicationCommandAutocomplete)
IsModalSubmit(this) == this.type = Defined(InteractionTypes.ModalSubmit)
IsMessageComponent(this) == this.type = Defined(InteractionTypes.MessageComponent)
IsApplicationCommand(this) == this.type = Defined(InteractionTypes.ApplicationCommand)

\* this.component_type === ComponentTypes.X
IsButton(this) == this.component_type = Defined(ComponentTypes.Button)
IsChannelSelectMenu(this) == this.component_type = Defined(ComponentTypes.ChannelSelectMenu)
IsStringSelectMenu(this) == this.component_type = Defined(ComponentTypes.StringSelectMenu)
IsUserSelectMenu(this) == this.component_type = Defined(ComponentTypes.UserSelectMenu)
IsRoleSelectMenu(this) == this.component_type = Defined(ComponentTypes.RoleSelectMenu)
IsMentionableSelectMenu(this) ==
    this.component_type = Defined(ComponentTypes.MentionableSelectMenu)
IsAnySelectMenu(this) ==
    this.component_type \in
        {Defined(ComponentTypes.StringSelectMenu), Defined(ComponentTypes.ChannelSelectMenu),
         Defined(ComponentTypes.MentionableSelectMenu), Defined(ComponentTypes.RoleSelectMenu),
         Defined(ComponentTypes.UserSelectMenu)}
IsTextInput(this) == this.component_type = Defined(ComponentTypes.TextInput)

\* this.data?.target_id
DataTargetId(this) == IF this.data = Undefined THEN Undefined ELSE this.data.target_id

\* this.data?.target_id && this.data.type === ContextMenuTypes.X ? true : false
IsMessageContextMenu(this) ==
    Truthy(DataTargetId(this)) /\ this.data.type = Defined(ContextMenuTypes.Message)
IsUserContextMenuIgnoresTarget(this) ==
    this.data # Undefined /\ this.data.type = Defined(ContextMenuTypes.User)
IsUserContextMenu(this) ==
    Truthy(DataTargetId(this)) /\ this.data.type = Defined(ContextMenuTypes.User)
IsAnyContextMenu(this) == Truthy(DataTargetId(this))

\* a payload has arrived; no manager and no Group is involved
InitInteraction ==
    /\ interaction \in {[st |-> "received", payload |-> data] : data \in RawInteractionData}
    /\ group = <<>>
    /\ gop = NoCall
    /\ clone = Undefined
    /\ compared = Undefined
    /\ cache = <<>>
    /\ highest = Undefined
    /\ everyone = Undefined
    /\ ctor = "start"
    /\ calls = [c \in Calls |-> IdleCall]
    /\ made = 0
    /\ history = <<>>

\* the constructor runs to its end: nothing in it throws
BasicInteractionConstructor ==
    /\ interaction.st = "received"
    /\ interaction' = [st |-> "constructed", payload |-> interaction.payload,
                       this |-> NewBasicInteraction(interaction.payload)]
    /\ UNCHANGED <<groupVars, managerVars, clone, compared>>

NextInteraction == BasicInteractionConstructor

SpecInteraction == InitInteraction /\ [][NextInteraction]_vars

(***************************************************************************)
(* Claims about RoleManager, checked under Spec                            *)
(***************************************************************************)
\* the step in which call c of method op gets its successful response
Resolves(c, op) == calls[c].st = "pending" /\ calls[c].op = op /\ calls'[c].st = "resolved"
\* the step in which the remote call of c fails
Rejects(c, op) == calls[c].st = "pending" /\ calls[c].op = op /\ calls'[c].st = "rejected"
\* the step in which method op is called as call c
Invokes(c, op) == calls[c].st = "idle" /\ calls'[c].st # "idle" /\ calls'[c].op = op
Mutating == {"create", "delete"}

C2_FailureLeavesCache ==
    [][\A c \in Calls :
           /\ calls'[c].st # "idle" => calls'[c].requests <= 1
           /\ \A op \in Mutating :
                  /\ Rejects(c, op) =>
                         /\ calls'[c].err = "RemoteRejected"
                         /\ calls'[c].ret = Undefined
                         /\ cache' = cache
                  /\ (calls[c].st = "pending" /\ calls[c].op = op /\ cache' # cache) =>
                         \E b \in Calls : \E o \in Mutating : Resolves(b, o)]_vars
C2_Witness ==
    \E c \in Calls :
        /\ calls[c].st = "rejected" /\ calls[c].op = "delete"
        /\ calls[c].err = "RemoteRejected"
        /\ GroupHas(cache, calls[c].id)

\* C3: when create succeeds the cache maps the identifier of the response to a
\* role built from the response, the caller gets the very object stored under
\* that identifier, and an entry that had the identifier is replaced, not
\* duplicated
C3_CreateUpsertsResponse ==
    [][\A c \in Calls : Resolves(c, "create") =>
           LET d == calls'[c].data
               r == calls'[c].ret
           IN  /\ GroupHas(cache', d.id)
               /\ GroupGet(cache', d.id) = r
               /\ r.id = d.id /\ r.position = d.position /\ r.guildId = GuildId
               /\ r.inst \notin Live
               /\ Cardinality({i \in 1 .. Len(cache') : KeyOf(cache'[i]) = d.id}) = 1
               /\ GroupSize(cache') = GroupSize(cache) + (IF GroupHas(cache, d.id) THEN 0 ELSE 1)
               /\ GroupKeySeq(cache') = (IF GroupHas(cache, d.id) THEN GroupKeySeq(cache)
                                         ELSE Append(GroupKeySeq(cache), d.id))
               /\ \A k \in GroupKeySet(cache) \ {d.id} : GroupGet(cache', k) = GroupGet(cache, k)]_vars
\* a create took the place of the Role whose edit is still running
C3_Witness ==
    \E c, e \in Calls :
        /\ calls[c].st = "resolved" /\ calls[c].op = "create"
        /\ calls[e].st = "pending" /\ calls[e].op = "edit" /\ calls[e].id = calls[c].data.id
        /\ GroupGet(cache, calls[c].data.id) = calls[c].ret
        /\ calls[e].target # calls[c].ret
        /\ GroupSize(cache) = 1

C5_EditUpdatesCache ==
    [][\A c \in Calls : Resolves(c, "edit") =>
           GroupGet(cache', calls[c].id) = calls'[c].ret]_vars

\* C6: in every state of a manager, highest is a cached role of maximal
\* position and everyone is the cache entry whose identifier is the guild's
C6_DerivedFollowCache ==
    ctor # "start" =>
        /\ cache # <<>> =>
               /\ \E i \in 1 .. Len(cache) : ValueOf(cache[i]) = highest
               /\ \A i \in 1 .. Len(cache) : ValueOf(cache[i]).position <= highest.position
        /\ GroupHas(cache, GuildId) => everyone = GroupGet(cache, GuildId)

\* C23: when a delete of an identifier succeeds while an edit of the same
\* identifier is in flight, the completion of that edit does not put the
\* identifier back into the cache
C23_EditDoesNotReinsert ==
    [][\A c \in Calls :
           (Resolves(c, "edit") \/ Rejects(c, "edit")) =>
               /\ ~GroupHas(cache, calls[c].id) => ~GroupHas(cache', calls[c].id)
               /\ GroupKeySeq(cache') = GroupKeySeq(cache)]_vars
\* an edit has succeeded whose identifier, cached when the edit was called,
\* was deleted while it was in flight
C23_Witness ==
    \E e \in Calls :
        /\ calls[e].st = "resolved" /\ calls[e].op = "edit"
        /\ calls[e].ret.id = calls[e].id
        /\ ~GroupHas(cache, calls[e].id)

\* C24: constructing a RoleManager, whose cache the manager creates empty,
\* completes without an error and yields a manager with an empty cache on
\* which create, delete and edit can then be called
C24_ConstructorCompletes ==
    /\ ctor \in {"start", "done"}
    /\ made = 0 => cache = <<>>

(***************************************************************************)
(* Claims about the cache and the history of responses, under SpecSync     *)
(***************************************************************************)
\* no create, delete or edit is waiting for its response
Quiescent == \A c \in Calls : calls[c].st # "pending"
\* the identifiers the successful calls of op returned or named
SucceededIds(op) == {history[i].id : i \in {j \in 1 .. Len(history) : history[j].op = op}}
\* the identifiers whose most recent successful create or delete was a create
LastCreated ==
    {id \in Ids : \E i \in 1 .. Len(history) :
        /\ history[i] = [op |-> "create", id |-> id]
        /\ \A j \in i + 1 .. Len(history) : history[j].id # id}

\* C22 as stated: whenever no operation is in flight, the keys of the cache
\* are the identifiers returned by successful creates minus the identifiers
\* of successful deletes
C22_KeysAreCreatedMinusDeleted ==
    Quiescent => GroupKeySet(cache) = SucceededIds("create") \ SucceededIds("delete")

\* C22, amended: whenever no operation is in flight, the keys of the cache
\* are the identifiers whose most recent successful create or delete was a
\* create, responses taken in the order they arrived
C22_KeysAreLastCreated ==
    Quiescent => GroupKeySet(cache) = LastCreated
\* an identifier was created, deleted and returned by a later create; another
\* call failed
C22_Witness ==
    /\ Quiescent
    /\ Len(history) = 3
    /\ history[1] = [op |-> "create", id |-> 1]
    /\ history[2] = [op |-> "delete", id |-> 1]
    /\ history[3] = [op |-> "create", id |-> 1]
    /\ GroupKeySet(cache) = {1}
    /\ made = 4
    /\ \E c \in Calls : calls[c].st = "rejected"

(***************************************************************************)
(* Claims about Group, checked under SpecGroup                             *)
(***************************************************************************)
\* C7: after any sequence of set, delete, merge and sweep, size is the number
\* of distinct keys present, a set of a key already present does not increase
\* size, and empty is true exactly when size is 0
C7_SizeCountsDistinctKeys ==
    /\ GroupSize(group) = Cardinality(GroupKeySet(group))
    /\ GroupEmpty(group) <=> (GroupSize(group) = 0)
    /\ (gop.op = "set" /\ GroupHas(gop.pre, gop.key)) => GroupSize(group) <= GroupSize(gop.pre)
C7_Witness ==
    /\ gop.op = "set"
    /\ GroupHas(gop.pre, gop.key)
    /\ GroupGet(gop.pre, gop.key) # gop.val
    /\ GroupSize(gop.pre) >= 2
    /\ ~GroupEmpty(group)

\* C8: sweep(P) calls P once per entry of the contents as they were before any
\* deletion, removes exactly the entries that satisfy P, leaves every other
\* entry with its value and its relative order, and returns the same Group
C8_SweepRemovesExactlyMatches ==
    gop.op = "sweep" =>
        /\ gop.called = gop.pre
        /\ group = SelectSeq(gop.pre, LAMBDA e : e \notin gop.pred)
        /\ gop.ret = This
C8_Witness ==
    /\ gop.op = "sweep"
    /\ Len(gop.pre) = 3
    /\ gop.pre[1] \in gop.pred
    /\ gop.pre[2] \in gop.pred
    /\ gop.pre[3] \notin gop.pred
    /\ Len(group) = 1

\* C9: after A.merge(B) every key of B maps in A to B's value, every key only
\* in A keeps its value, A's keys are the union of both key sets, B is
\* unchanged and the call returns A
C9_MergeUpsertsOther ==
    gop.op = "merge" =>
        /\ \A k \in GroupKeySet(gop.other) : GroupGet(group, k) = GroupGet(gop.other, k)
        /\ \A k \in GroupKeySet(gop.pre) \ GroupKeySet(gop.other) :
               GroupGet(group, k) = GroupGet(gop.pre, k)
        /\ GroupKeySet(group) = GroupKeySet(gop.pre) \cup GroupKeySet(gop.other)
        /\ GroupSize(group) = Cardinality(GroupKeySet(group))
        /\ gop.otherAfter = gop.other
        /\ gop.ret = This
C9_Witness ==
    /\ gop.op = "merge"
    /\ \E k \in GroupKeySet(gop.pre) \cap GroupKeySet(gop.other) :
           GroupGet(gop.pre, k) # GroupGet(gop.other, k)
    /\ GroupKeySet(gop.pre) \ GroupKeySet(gop.other) # {}
    /\ GroupKeySet(gop.other) \ GroupKeySet(gop.pre) # {}

\* C10: for every n >= 0, first(n) is the mapping of exactly the first
\* min(n, size) entries and last(n) of exactly the last min(n, size) entries,
\* in insertion order; neither returns more than n entries
C10_FirstLastExact ==
    /\ gop.op = "first" =>
           /\ gop.ret = SubSeq(gop.pre, 1, Min(gop.amount, Len(gop.pre)))
           /\ Len(gop.ret) <= gop.amount
    /\ gop.op = "last" =>
           /\ gop.ret = SubSeq(gop.pre, Len(gop.pre) - Min(gop.amount, Len(gop.pre)) + 1,
                               Len(gop.pre))
           /\ Len(gop.ret) <= gop.amount

\* C11: called without an amount, first() returns the value of the first entry
\* in insertion order and last() the value of the last entry; on an empty
\* Group both return none
C11_FirstLastValue ==
    /\ gop.op = "first()" =>
           gop.ret = IF gop.pre = <<>> THEN Undefined ELSE ValueOf(gop.pre[1])
    /\ gop.op = "last()" =>
           gop.ret = IF gop.pre = <<>> THEN Undefined ELSE ValueOf(gop.pre[Len(gop.pre)])

\* the fold of a non-empty sequence of values from its first element onwards
RECURSIVE LeftFold(_, _)
LeftFold(values, cb) ==
    IF Len(values) = 1
    THEN values[1]
    ELSE CallbackFn(cb, LeftFold(SubSeq(values, 1, Len(values) - 1), cb), values[Len(values)])
Reversed(values) == [i \in 1 .. Len(values) |-> values[Len(values) + 1 - i]]

Occurrences(a, v) == Cardinality({i \in 1 .. Len(a) : a[i] = v})

C15_RandomReturnsMember ==
    /\ gop.op = "random" =>
           IF gop.pre = <<>>
           THEN gop.ret = Undefined
           ELSE \E i \in 1 .. Len(gop.pre) : gop.ret = Defined(ValueOf(gop.pre[i]))
    /\ gop.op = "randomKey" =>
           IF gop.pre = <<>>
           THEN gop.ret = Undefined
           ELSE \E i \in 1 .. Len(gop.pre) : gop.ret = Defined(KeyOf(gop.pre[i]))

\* C25: a set of a key that is already present replaces its value and keeps
\* the key at its place in the insertion order; after A.merge(B) the keys of A
\* keep their order, colliding keys where they were in A, and the keys only
\* in B follow in B's order
C25_SetKeepsPosition ==
    /\ (gop.op = "set" /\ GroupHas(gop.pre, gop.key)) =>
           /\ GroupKeySeq(group) = GroupKeySeq(gop.pre)
           /\ GroupGet(group, gop.key) = gop.val
           /\ \A k \in GroupKeySet(gop.pre) \ {gop.key} : GroupGet(group, k) = GroupGet(gop.pre, k)
    /\ gop.op = "merge" =>
           GroupKeySeq(group) =
               GroupKeySeq(gop.pre) \o
                   SelectSeq(GroupKeySeq(gop.other), LAMBDA k : k \notin GroupKeySet(gop.pre))
C25_Witness ==
    /\ gop.op = "merge"
    /\ gop.pre = <<Entry(1, "a"), Entry(2, "a")>>
    /\ gop.other = <<Entry(3, "b"), Entry(1, "b")>>
    /\ group = <<Entry(1, "b"), Entry(2, "a"), Entry(3, "b")>>

(***************************************************************************)
(* Claims about clone, checked under SpecClone                             *)
(***************************************************************************)
Writes == {"set", "delete", "merge", "sweep"}

\* C14: clone returns a new Group with the same entries in the same order, and
\* a later set, delete, merge or sweep on the original leaves the clone
\* unchanged, as one on the clone leaves the original unchanged
C14_CloneIndependent ==
    [][/\ gop'.op = "clone" => clone' = group /\ group' = group
       /\ (gop'.op \in Writes /\ gop'.on = "this") => clone' = clone
       /\ (gop'.op \in Writes /\ gop'.on = "newGroup") => group' = group]_vars
C14_Witness ==
    /\ gop.op = "sweep"
    /\ gop.on = "newGroup"
    /\ group = <<Entry(2, "b"), Entry(1, "a")>>
    /\ clone = <<Entry(1, "a")>>

(***************************************************************************)
(* Claims about comparePosition, checked under SpecCompare                 *)
(***************************************************************************)
Abs(x) == IF x < 0 THEN 0 - x ELSE x

\* C16: for every pair of roles a and b, comparePosition(a, b) is never
\* negative, is the absolute difference of their positions, is 0 exactly when
\* the positions are equal, and equals comparePosition(b, a)
C16_ComparePositionAbsolute ==
    "ret" \in DOMAIN compared =>
        /\ compared.ret >= 0
        /\ compared.ret = Abs(compared.role1.position - compared.role2.position)
        /\ (compared.ret = 0) <=> (compared.role1.position = compared.role2.position)
        /\ compared.ret = compared.swapped
C16_Witness ==
    /\ "ret" \in DOMAIN compared
    /\ compared.role1.position = 2
    /\ compared.role2.position = 7
    /\ compared.ret = 5
    /\ compared.swapped = 5

(***************************************************************************)
(* Claims about BasicInteraction, checked under SpecInteraction            *)
(***************************************************************************)
\* the payload's data carries a target identifier
HasTargetId(payload) == payload.data # Undefined /\ payload.data.target_id # Undefined
\* the payload's data.type is the number n
DataTypeIs(payload, n) == payload.data # Undefined /\ payload.data.type = Defined(n)

\* C17: isAnyContextMenu holds exactly when the data payload carries a target
\* identifier, isUserContextMenu exactly when a target identifier is present
\* and data.type is User (2), isMessageContextMenu exactly when a target
\* identifier is present and data.type is Message (3); the last two never
\* hold together and each implies isAnyContextMenu
C17_ContextMenuPredicates ==
    interaction.st = "constructed" =>
        LET this == interaction.this
            payload == interaction.payload
        IN  /\ IsAnyContextMenu(this) <=> HasTargetId(payload)
            /\ IsUserContextMenu(this) <=> (HasTargetId(payload) /\ DataTypeIs(payload, 2))
            /\ IsMessageContextMenu(this) <=> (HasTargetId(payload) /\ DataTypeIs(payload, 3))
            /\ ~(IsUserContextMenu(this) /\ IsMessageContextMenu(this))
            /\ IsUserContextMenu(this) => IsAnyContextMenu(this)
            /\ IsMessageContextMenu(this) => IsAnyContextMenu(this)
C17_Witness ==
    /\ interaction.st = "constructed"
    /\ interaction.payload.type = Defined(2)
    /\ interaction.payload.data =
           [target_id |-> Defined("99"), type |-> Defined(2), component_type |-> Undefined]
    /\ IsApplicationCommand(interaction.this)
    /\ IsUserContextMenu(interaction.this)
    /\ ~IsMessageContextMenu(interaction.this)
    /\ IsAnyContextMenu(interaction.this)

\* C18: whenever isAnyContextMenu, isUserContextMenu or isMessageContextMenu
\* is true of a classified interaction, isApplicationCommand is true
C18_ContextMenuOnlyOnCommands ==
    interaction.st = "constructed" =>
        LET this == interaction.this
        IN  (IsAnyContextMenu(this) \/ IsUserContextMenu(this) \/ IsMessageContextMenu(this))
                => IsApplicationCommand(this)

\* C19: whenever one of isButton, isTextInput, isStringSelectMenu,
\* isChannelSelectMenu, isUserSelectMenu, isRoleSelectMenu,
\* isMentionableSelectMenu and isAnySelectMenu is true of a classified
\* interaction, isMessageComponent is true
C19_ComponentOnlyOnMessageComponents ==
    interaction.st = "constructed" =>
        LET this == interaction.this
        IN  (\/ IsButton(this) \/ IsTextInput(this) \/ IsStringSelectMenu(this)
             \/ IsChannelSelectMenu(this) \/ IsUserSelectMenu(this) \/ IsRoleSelectMenu(this)
             \/ IsMentionableSelectMenu(this) \/ IsAnySelectMenu(this))
                => IsMessageComponent(this)

\* C20: a payload that lacks a primary type or an identifier is refused with
\* MalformedPayload and no interaction object is made of it; an interaction
\* object always has an identifier and a primary type
C20_MalformedPayloadRefused ==
    interaction.st = "constructed" =>
        /\ interaction.payload.id # Undefined
        /\ interaction.payload.type # Undefined
        /\ interaction.this.id # Undefined
        /\ interaction.this.type # Undefined

\* the entity the constructor of class builds from a raw field, none when the
\* raw field is absent
BuiltWhenPresent(class, raw) == IF raw = Undefined THEN Undefined ELSE NewEntity(class, raw)

\* C21: after construction the guild field holds a constructed guild wrapper
\* whether or not the raw guild field was present, and each of member, user
\* and message holds an entity built by its own constructor exactly when the
\* raw field was present and is absent otherwise; no later step of the
\* construction replaces these entities
C21_SubEntitiesConstructed ==
    interaction.st = "constructed" =>
        LET this == interaction.this
            payload == interaction.payload
        IN  /\ this.guild = NewEntity("Guild", payload.guild)
            /\ this.member = BuiltWhenPresent("GuildMember", payload.member)
            /\ this.user = BuiltWhenPresent("User", payload.user)
            /\ this.message = BuiltWhenPresent("Message", payload.message)

====
